---- MODULE Spec2Model ----
(***************************************************************************)
(* Wi-Fi presence registry and free-space fusion of the IoT dashboard:     *)
(* controller.py (capture thread, trust store, frame sampler) and main.py  *)
(* (Tk event loop: device table sweep, trust pop-up, evaluation ticks).    *)
(* Text is modelled as sequences of one-character strings.                 *)
(***************************************************************************)
EXTENDS Integers, Sequences, FiniteSets, TLC

\* ------------------------------------------------------------------ bounds
\* the clock runs from 0 to MaxTime (seconds) and is read in steps of ClockStep
MaxTime == 10
ClockStep == 5
\* capture lines delivered by tcpdump over one run
MaxLines == 2
\* "Add Trusted Device" pop-ups open at the same time
MaxPopups == 2

\* ------------------------------------------------------ program constants
\* main.py: timeout (in seconds) to consider a device lost
DEVICE_TIMEOUT == 5
\* main.py: root.after(5000, update_device_table), in seconds
TABLE_PERIOD == 5

\* controller.py: mapping of MAC prefix to vendor
VENDOR_MAP ==
  (<<"9", "4", ":", "9", "b", ":", "2", "c">> :> <<"S", "a", "m", "s", "u", "n", "g", " ", "E", "l", "e", "c", "t", "r", "o", "n", "i", "c", "s">>)
  @@ (<<"b", "8", ":", "5", "0", ":", "0", "1">> :> <<"A", "p", "p", "l", "e", ",", " ", "I", "n", "c", ".">>)
  @@ (<<"6", "e", ":", "5", "d", ":", "0", "6">> :> <<"H", "u", "a", "w", "e", "i", " ", "T", "e", "c", "h", "n", "o", "l", "o", "g", "i", "e", "s">>)
  @@ (<<"b", "6", ":", "6", "a", ":", "f", "3">> :> <<"X", "i", "a", "o", "m", "i", " ", "C", "o", "m", "m", "u", "n", "i", "c", "a", "t", "i", "o", "n", "s">>)
  @@ (<<"6", "2", ":", "0", "5", ":", "5", "a">> :> <<"O", "P", "P", "O", " ", "E", "l", "e", "c", "t", "r", "o", "n", "i", "c", "s">>)
  @@ (<<"f", "a", ":", "6", "2", ":", "3", "7">> :> <<"O", "n", "e", "P", "l", "u", "s", " ", "T", "e", "c", "h", "n", "o", "l", "o", "g", "y">>)
  @@ (<<"2", "6", ":", "0", "9", ":", "a", "8">> :> <<"M", "o", "t", "o", "r", "o", "l", "a", " ", "M", "o", "b", "i", "l", "i", "t", "y">>)
  @@ (<<"b", "6", ":", "7", "7", ":", "d", "5">> :> <<"W", "o", "n", " ", "S", "u", "k", " ", "C", "H", "O">>)

Unknown == <<"U", "n", "k", "n", "o", "w", "n">>

\* ------------------------------------------------------------ text helpers
Max(S) == CHOOSE x \in S : \A y \in S : y <= x
Min(S) == CHOOSE x \in S : \A y \in S : x <= y

Digits == {"0", "1", "2", "3", "4", "5", "6", "7", "8", "9"}
\* the character class [0-9a-fA-F:]
HexColon == Digits \cup {"a", "b", "c", "d", "e", "f",
                         "A", "B", "C", "D", "E", "F", ":"}
\* characters removed by str.strip()
Whitespace == {" ", "\t", "\n", "\r", "\f"}

DigitVal(c) ==
  CASE c = "0" -> 0 [] c = "1" -> 1 [] c = "2" -> 2 [] c = "3" -> 3
    [] c = "4" -> 4 [] c = "5" -> 5 [] c = "6" -> 6 [] c = "7" -> 7
    [] c = "8" -> 8 [] c = "9" -> 9
DigitChar(d) ==
  CASE d = 0 -> "0" [] d = 1 -> "1" [] d = 2 -> "2" [] d = 3 -> "3"
    [] d = 4 -> "4" [] d = 5 -> "5" [] d = 6 -> "6" [] d = 7 -> "7"
    [] d = 8 -> "8" [] d = 9 -> "9"

\* str.lower() on one character (only A-F occur in a MAC token)
LowerChar(c) ==
  CASE c = "A" -> "a" [] c = "B" -> "b" [] c = "C" -> "c"
    [] c = "D" -> "d" [] c = "E" -> "e" [] c = "F" -> "f"
    [] OTHER -> c
\* a key that keeps the case of the token
LowerKeep(s) == s

\* str.lower()
Lower(s) == [i \in 1..Len(s) |-> LowerChar(s[i])]

\* str.strip(): drop leading and trailing whitespace
Strip(s) ==
  LET keep == {i \in 1..Len(s) : s[i] \notin Whitespace}
  IN  IF keep = {} THEN <<>> ELSE SubSeq(s, Min(keep), Max(keep))

\* s[:n]
Prefix(s, n) == SubSeq(s, 1, IF Len(s) < n THEN Len(s) ELSE n)

\* the literal pat occurs in s at position i
StartsAt(s, i, pat) ==
  /\ i + Len(pat) - 1 <= Len(s)
  /\ \A k \in 1..Len(pat) : s[i + k - 1] = pat[k]

\* length of the longest run of characters of class cls starting at s[i]
RunLen(s, i, cls) ==
  Max({n \in 0..(Len(s) + 1 - i) : \A k \in i..(i + n - 1) : s[k] \in cls})

SAMark == <<"S", "A", ":">>
SigMark == <<"d", "B", "m", " ", "s", "i", "g", "n", "a", "l">>

NoMatch == [found |-> FALSE, group |-> <<>>]

\* re.search(r"SA:([0-9a-fA-F:]+)", line): leftmost match, greedy group
SearchMac(line) ==
  LET hits == {i \in 1..Len(line) :
                 StartsAt(line, i, SAMark) /\ RunLen(line, i + 3, HexColon) >= 1}
  IN  IF hits = {} THEN NoMatch
      ELSE LET i == Min(hits)
           IN  [found |-> TRUE,
                group |-> SubSeq(line, i + 3, i + 2 + RunLen(line, i + 3, HexColon))]

\* re.search(r'(-\d+)dBm signal', line): the digits are followed by the literal
SearchSignal(line) ==
  LET hits == {i \in 1..Len(line) :
                 /\ line[i] = "-"
                 /\ RunLen(line, i + 1, Digits) >= 1
                 /\ StartsAt(line, i + 1 + RunLen(line, i + 1, Digits), SigMark)}
  IN  IF hits = {} THEN NoMatch
      ELSE LET i == Min(hits)
           IN  [found |-> TRUE,
                group |-> SubSeq(line, i, i + RunLen(line, i + 1, Digits))]

\* int(): decimal value of the digits d[1..n] of a digit string
RECURSIVE DecValue(_, _)
DecValue(d, n) == IF n = 0 THEN 0 ELSE 10 * DecValue(d, n - 1) + DigitVal(d[n])
\* int(signal_match.group(1)) for a group of the shape -ddd
IntOf(g) == 0 - DecValue(Tail(g), Len(g) - 1)

\* VENDOR_MAP.get(mac_prefix, 'Unknown')
VendorOf(mac_prefix) ==
  IF mac_prefix \in DOMAIN VENDOR_MAP THEN VENDOR_MAP[mac_prefix] ELSE Unknown

\* ------------------------------------------------------------- trust store
\* f.readlines(): cut the text after every newline (the newline is kept)
RECURSIVE ReadLines(_)
ReadLines(text) ==
  IF text = <<>> THEN <<>>
  ELSE LET nl == {i \in 1..Len(text) : text[i] = "\n"}
           e  == IF nl = {} THEN Len(text) ELSE Min(nl)
       IN  <<SubSeq(text, 1, e)>> \o ReadLines(SubSeq(text, e + 1, Len(text)))

\* line.split(",", 1)
SplitComma(line) ==
  LET cs == {i \in 1..Len(line) : line[i] = ","}
  IN  IF cs = {} THEN <<line>>
      ELSE <<SubSeq(line, 1, Min(cs) - 1), SubSeq(line, Min(cs) + 1, Len(line))>>

\* d[k] = v on a dict held as a function
DictSet(d, k, v) == [x \in (DOMAIN d) \cup {k} |-> IF x = k THEN v ELSE d[x]]

\* load_trusted_devices: the loop over the lines read from the file
RECURSIVE LoadLines(_, _)
LoadLines(lines, acc) ==
  IF lines = <<>> THEN acc
  ELSE LET line  == Strip(Head(lines))
           parts == SplitComma(line)
           mac   == Strip(parts[1])
           name  == IF Len(parts) = 2 THEN Strip(parts[2]) ELSE <<>>
       IN  IF line = <<>> THEN LoadLines(Tail(lines), acc)
           ELSE LoadLines(Tail(lines), DictSet(acc, mac, name))

load_trusted_devices(file) == LoadLines(ReadLines(file), <<>>)

\* add_trusted_device without the membership test: always stores and appends
AddAlways(td, file, mac, name) ==
  [td |-> DictSet(td, mac, name), file |-> file \o mac \o <<",">> \o name \o <<"\n">>]

\* add_trusted_device(mac, name): the new in-memory map and file text
add_trusted_device(td, file, mac, name) ==
  IF mac \notin DOMAIN td
    THEN [td   |-> DictSet(td, mac, name),
          file |-> file \o mac \o <<",">> \o name \o <<"\n">>]
    ELSE [td |-> td, file |-> file]

\* ------------------------------------------------------------------ inputs
TokA == <<"4", "C", ":", "2", "3", ":", "1", "A", ":", "0", "5", ":", "B", "D", ":", "D", "4">>
TokB == <<"b", "8", ":", "5", "0", ":", "0", "1", ":", "a", "a", ":", "b", "b", ":", "c", "c">>
MacA == <<"4", "c", ":", "2", "3", ":", "1", "a", ":", "0", "5", ":", "b", "d", ":", "d", "4">>
MacB == <<"b", "8", ":", "5", "0", ":", "0", "1", ":", "a", "a", ":", "b", "b", ":", "c", "c">>
Alice == <<"A", "l", "i", "c", "e">>
Bob == <<"B", "o", "b">>
LineHead == <<"1", "1", "b", " ">>
LineMid == <<" ", "-", "9", "2", "d", "B", "m", " ", "n", "o", "i", "s", "e", " ", "D", "A", ":", "f", "f", ":", "f", "f", ":", "f", "f", ":", "f", "f", ":", "f", "f", ":", "f", "f", " ">>
LineTail == <<" ", "P", "r", "o", "b", "e", " ", "R", "e", "q", "u", "e", "s", "t", "\r", "\n">>

\* decimal digits of a natural number, as str() prints them
RECURSIVE DecDigits(_)
DecDigits(n) ==
  IF n < 10 THEN <<DigitChar(n)>> ELSE DecDigits(n \div 10) \o <<DigitChar(n % 10)>>
\* a negative dBm value as tcpdump prints it
RenderDbm(v) == <<"-">> \o DecDigits(0 - v)

\* MAC tokens and signal values the capture source delivers
CaptureTokens == {TokA, TokB}
CaptureSignals == {0 - 69, 0 - 7}

\* one line of tcpdump output: tok = <<>> leaves the SA: token out, sig = 0
\* leaves the "dBm signal" token out, blank is an empty line
BlankInput == [tok |-> <<>>, sig |-> 0, blank |-> TRUE]
CaptureInputs ==
  {[tok |-> TokA, sig |-> 0 - 69, blank |-> FALSE],
   [tok |-> TokA, sig |-> 0 - 7, blank |-> FALSE],
   [tok |-> TokB, sig |-> 0 - 7, blank |-> FALSE],
   [tok |-> TokA, sig |-> 0, blank |-> FALSE],
   [tok |-> <<>>, sig |-> 0 - 69, blank |-> FALSE],
   [tok |-> <<>>, sig |-> 0, blank |-> FALSE],
   BlankInput}

LineText(inp) ==
  IF inp.blank THEN <<"\r", "\n">>
  ELSE LineHead
       \o (IF inp.sig # 0 THEN RenderDbm(inp.sig) \o SigMark ELSE <<>>)
       \o LineMid
       \o (IF inp.tok # <<>> THEN SAMark \o inp.tok ELSE <<>>)
       \o LineTail

\* contents of trusted_devices.txt found at start-up
NoFile == <<>>
FileAlice == MacA \o <<",">> \o Alice \o <<"\n">>
FileNoName == MacB \o <<"\n">>
InitialTrustFiles == {NoFile, FileAlice \o FileNoName}
\* a file kept by hand whose last line does not end in a newline
FileOpenEnd == MacB \o <<",">> \o Alice

\* names typed into the pop-up entry (before .strip())
TypedNames == {<<>>, Bob, <<" ">> \o Alice}

\* what one iteration of run_tcpdump computes from each line before it
\* touches shared state: the stripped line and the two matches
CaptureParse ==
  [inp \in CaptureInputs |->
     LET line == Strip(LineText(inp))
     IN  [line |-> line, mac_match |-> SearchMac(line),
          signal_match |-> SearchSignal(line)]]

\* --------------------------------------------------------------- registry
\* settings.py: VISUALIZATION_CONFIG['max_data_points'], maxlen of the deques
MaxDataPoints == 30

\* deque(maxlen=...).append(x)
DequeAppend(q, x) ==
  IF Len(q) >= MaxDataPoints THEN Tail(q) \o <<x>> ELSE Append(q, x)

\* mac in devices_info (the dict is held as a list of entries in insertion order)
HasKey(d, k) == \E i \in 1..Len(d) : d[i].key = k
\* devices_info[k]
Lookup(d, k) == d[CHOOSE i \in 1..Len(d) : d[i].key = k].info

\* devices_info[k] = v
Upsert(d, k, v) ==
  IF HasKey(d, k)
    THEN [i \in 1..Len(d) |-> IF d[i].key = k THEN [key |-> k, info |-> v] ELSE d[i]]
    ELSE Append(d, [key |-> k, info |-> v])

\* del devices_info[k]
DictDel(d, k) == SelectSeq(d, LAMBDA e : e.key # k)

\* a record stamped with the sign of the time flipped
NewRecordNegated(mac_address, signal_value, current_time, mac_prefix) ==
  [mac |-> mac_address, signal |-> signal_value, last_seen |-> 0 - current_time,
   vendor |-> VendorOf(mac_prefix)]

\* the dict literal stored by run_tcpdump
NewRecord(mac_address, signal_value, current_time, mac_prefix) ==
  [mac |-> mac_address, signal |-> signal_value, last_seen |-> current_time,
   vendor |-> VendorOf(mac_prefix)]

\* the condition with "or" in place of "and"
MatchedEither(mac_match, signal_match) == mac_match.found \/ signal_match.found

\* if mac_match and signal_match
Matched(mac_match, signal_match) == mac_match.found /\ signal_match.found

\* the [NOT TRUSTED] line handed to publish_log
NotTrustedMessage(mac_address, mac_prefix, signal_value, current_time) ==
  [tag |-> "NOT TRUSTED", mac |-> mac_address, name |-> <<>>,
   vendor |-> VendorOf(mac_prefix), signal |-> signal_value, time |-> current_time]

\* the [TRUSTED] line handed to publish_log
TrustedMessage(mac_address, trusted_name, mac_prefix, signal_value, current_time) ==
  [tag |-> "TRUSTED", mac |-> mac_address, name |-> trusted_name,
   vendor |-> VendorOf(mac_prefix), signal |-> signal_value, time |-> current_time]

\* a log gate that ignores the Secure Location flag
LogAlways(secure) == TRUE

\* the "secure_location_enabled and ..." gate of both log branches
LogEnabled(secure) == secure

\* the reader iterating the live dict instead of the copy
ReaderViewLive(items, live) == live

\* list(controller.devices_info.items()): the reader iterates the copy
ReaderView(items, live) == items

\* an eviction test with >= in place of >
ExpiredAtTimeout(age) == age >= DEVICE_TIMEOUT

\* if age > DEVICE_TIMEOUT
Expired(age) == age > DEVICE_TIMEOUT

\* a row that shows every device as not trusted
TableRowNo(mac, info, age, td) ==
  [mac |-> info.mac, vendor_name |-> info.vendor, signal |-> info.signal,
   age |-> age, trusted |-> "No"]

\* the row update_device_table inserts for a device that is kept
TableRow(mac, info, age, td) ==
  [mac         |-> info.mac,
   vendor_name |-> IF mac \in DOMAIN td /\ td[mac] # <<>> THEN td[mac] ELSE info.vendor,
   signal      |-> info.signal,
   age         |-> age,
   trusted     |-> IF mac \in DOMAIN td THEN "Yes" ELSE "No"]

\* ------------------------------------------------------------------- state
Producers == {1, 2}

VARIABLES
  now,                      \* time.time(), in seconds
  stop_threads,             \* controller.stop_threads
  root_alive,               \* the Tk root exists (mainloop serves events)
  secure_location_enabled,  \* controller.secure_location_enabled
  trusted_devices,          \* controller.trusted_devices
  trust_file,               \* text of trusted_devices.txt
  devices_info,             \* controller.devices_info
  detected_devices,         \* controller.detected_devices
  device_counts,            \* controller.device_counts
  wifi_strengths,           \* controller.wifi_strengths
  published,                \* per capture thread: lines given to publish_log
                            \* for the sighting it last started
  cap,                      \* per capture thread: position and locals of run_tcpdump
  lines_read,               \* lines delivered by the capture source so far
  gui_busy,                 \* update_device_table is running on the Tk thread
  sweep,                    \* locals of the running update_device_table
  device_table,             \* rows of the Treeview
  after_table,              \* due times of pending root.after(5000, update_device_table)
  popups,                   \* open "Add Trusted Device" pop-ups (their mac)
  gui_error,                \* an exception left update_device_table
  stream,                   \* output of the tcpdump child: "open", "eof" or "error"
  boot,                     \* "import" before controller is imported, then
                            \* "running", or "crashed" when the import raised
  store                     \* trusted_devices.txt: "absent", "readable" or "unreadable"

wifi_vars == <<now, stop_threads, root_alive, secure_location_enabled,
               trusted_devices, trust_file, devices_info, detected_devices,
               device_counts, wifi_strengths, published, cap, lines_read,
               gui_busy, sweep, device_table, after_table, popups, gui_error,
               stream, boot, store>>

\* the capture source and the start-up, which the running program only reads
env_vars == <<stream, boot, store>>

CapIdle(pc) ==
  [pc |-> pc, line |-> BlankInput,
   mac_address |-> <<>>, signal_value |-> 0, current_time |-> 0]

NoSweep == [current_time |-> 0, items |-> <<>>, at_start |-> <<>>, idx |-> 1,
            keys_to_remove |-> <<>>]

\* state when root.mainloop() is entered, with the capture threads in started
\* and trusted_devices.txt holding one of files
InitWifiOn(started, files) ==
  /\ now = 0
  /\ stop_threads = FALSE
  /\ root_alive = TRUE
  /\ secure_location_enabled = TRUE
  /\ trust_file \in files
  /\ trusted_devices = load_trusted_devices(trust_file)
  /\ devices_info = <<>>
  /\ detected_devices = {}
  /\ device_counts = <<>>
  /\ wifi_strengths = <<>>
  /\ published = [p \in Producers |-> <<>>]
  /\ cap = [p \in Producers |-> CapIdle(IF p \in started THEN "read" ELSE "off")]
  /\ lines_read = 0
  /\ gui_busy = FALSE
  /\ sweep = NoSweep
  /\ device_table = <<>>
  /\ after_table = <<TABLE_PERIOD>>
  /\ popups = <<>>
  /\ gui_error = FALSE
  /\ stream = "open"
  /\ boot = "running"
  /\ store = "readable"

InitWifi(started) == InitWifiOn(started, InitialTrustFiles)

\* ------------------------------------------------- frames and algorithms
\* A frame is a tuple of pixels in row-major order, a pixel its grey level
\* (cv2.cvtColor(..., COLOR_BGR2GRAY) of a pixel with equal channels).  The
\* camera delivers frames of two rows and two columns.
NoFrame == <<>>
Black == <<0, 0, 0, 0>>
OnePixel == <<255, 0, 0, 0>>
White == <<255, 255, 255, 255>>
CameraFrames == {Black, OnePixel, White}

Abs(x) == IF x < 0 THEN 0 - x ELSE x

\* cv2.absdiff followed by cv2.cvtColor(diff, COLOR_BGR2GRAY)
GrayAbsDiff(baseline, current) ==
  [i \in 1..Len(current) |-> Abs(baseline[i] - current[i])]

\* cv2.threshold(gray, t, 255, THRESH_BINARY)
Threshold(gray, t) == [i \in 1..Len(gray) |-> IF gray[i] > t THEN 255 ELSE 0]

\* cv2.countNonZero
CountNonZero(img) == Cardinality({i \in 1..Len(img) : img[i] # 0})

\* a percentage that is not divided by the total
PercentOfOne(part, total) == part * 10000

\* (part / total) * 100, in hundredths of a percent
Percent(part, total) == (part * 10000) \div total

\* cv2.morphologyEx(thresh, MORPH_OPEN, 5x5 ellipse): erosion then dilation.
\* On a frame of two rows and two columns the kernel placed on any pixel
\* covers the whole frame (the border does not take part).
MorphOpen(thresh) ==
  LET eroded  == [i \in 1..Len(thresh) |->
                    IF \A j \in 1..Len(thresh) : thresh[j] # 0 THEN 255 ELSE 0]
  IN  [i \in 1..Len(thresh) |->
         IF \E j \in 1..Len(thresh) : eroded[j] # 0 THEN 255 ELSE 0]

\* twice the sum of cv2.contourArea over the external contours of thresh: on
\* two rows and two columns the set pixels form one 8-connected region whose
\* contour runs through the pixel centres (area 1 for four pixels, 1/2 for
\* three, 0 for a dot or a segment)
TwiceContourArea(thresh) ==
  LET n == CountNonZero(thresh)
  IN  IF n = 4 THEN 2 ELSE IF n = 3 THEN 1 ELSE 0

\* the pixels left, right, above and below pixel i of a frame of two rows
\* and two columns
Neighbours(i) ==
  CASE i = 1 -> {2, 3} [] i = 2 -> {1, 4} [] i = 3 -> {1, 4} [] i = 4 -> {2, 3}

\* cv2.drawContours(contour_img, contours, -1, (0, 255, 0), 2) on a copy of
\* current: with thickness 2 the stroke has half-width 1, so the contour
\* pixels and the pixels next to them become green (grey level 150)
DrawContours(current, thresh) ==
  [i \in 1..Len(current) |->
     IF thresh[i] # 0 \/ (\E j \in Neighbours(i) : thresh[j] # 0)
       THEN 150 ELSE current[i]]

detect_frame_differencing(baseline, current) ==
  LET thresh == Threshold(GrayAbsDiff(baseline, current), 30)
  IN  [diff_percent |-> Percent(CountNonZero(thresh), Len(thresh))]

detect_background_subtraction(baseline, current) ==
  LET cleaned == MorphOpen(Threshold(GrayAbsDiff(baseline, current), 50))
  IN  [diff_percent |-> Percent(CountNonZero(cleaned), Len(cleaned))]

detect_contour_detection(baseline, current) ==
  LET thresh == Threshold(GrayAbsDiff(baseline, current), 30)
  IN  [diff_percent |-> Percent(TwiceContourArea(thresh), 2 * Len(current)),
       contour_img  |-> DrawContours(current, thresh)]

\* model.calculate_difference: skimage's ssim gives a similarity map that is
\* 1 where the two grey images agree and lower where they differ (the window
\* is taken as the pixel itself); scaled to 0..255 and thresholded with
\* THRESH_BINARY_INV | THRESH_OTSU the pixels of the lower class are flagged
calculate_difference_not_inverted(baseline, current) ==
  LET binary_diff == [i \in 1..Len(current) |->
                        IF baseline[i] # current[i] THEN 0 ELSE 255]
  IN  [diff_percent |-> Percent(CountNonZero(binary_diff), Len(binary_diff))]

calculate_difference(baseline, current) ==
  LET binary_diff == [i \in 1..Len(current) |->
                        IF baseline[i] # current[i] THEN 255 ELSE 0]
  IN  [diff_percent |-> Percent(CountNonZero(binary_diff), Len(binary_diff))]

detect_ssim(baseline, current) == calculate_difference(baseline, current)

\* sum(detection_results.values())
RECURSIVE SumValues(_)
SumValues(results) ==
  IF results = <<>> THEN 0 ELSE Head(results).value + SumValues(Tail(results))

\* a mean over all four methods whatever is enabled
MeanOfFour(results) == [num |-> SumValues(results), den |-> 4]

\* sum(detection_results.values()) / len(detection_results), kept as a fraction
MeanOf(results) == [num |-> SumValues(results), den |-> Len(results)]

VARIABLES
  frame,               \* controller.frame
  baseline_image,      \* controller.baseline_image
  var_frame_diff,      \* the four detection check boxes
  var_background_sub,
  var_contour,
  var_ssim,
  report,              \* output of the last evaluation tick: the overlay of
                       \* update_gui or the block print_detection_results published
  cam,                 \* webcam_feed: position, and ret of its last cap.read()
                       \* (TRUE while no read has failed yet)
  after_eval           \* per evaluation tick: its root.after(...) call is pending

vision_vars == <<frame, baseline_image, var_frame_diff, var_background_sub,
                 var_contour, var_ssim, report, cam, after_eval>>

\* the sampler thread and the timers of the two evaluation ticks
sched_vars == <<cam, after_eval>>

EvalTicks == {"update_gui", "print_detection_results"}

NoReport == [by |-> "none", available |-> FALSE, results |-> <<>>, mean |-> <<>>]

InitVision ==
  /\ frame = NoFrame
  /\ baseline_image = NoFrame
  /\ var_frame_diff = TRUE
  /\ var_background_sub = TRUE
  /\ var_contour = TRUE
  /\ var_ssim = TRUE
  /\ report = NoReport
  /\ cam = [pc |-> "loop", ret |-> TRUE]
  /\ after_eval = [t \in EvalTicks |-> TRUE]

\* ------------------------------------------------- run_tcpdump (one thread)
\* while not stop_threads: the loop is left once the flag is seen
CaptureExit(p) ==
  /\ UNCHANGED vision_vars
  /\ UNCHANGED env_vars
  /\ cap[p].pc = "read"
  /\ stop_threads
  /\ cap' = [cap EXCEPT ![p].pc = "exited"]
  /\ UNCHANGED <<now, stop_threads, root_alive, secure_location_enabled,
                 trusted_devices, trust_file, devices_info, detected_devices,
                 device_counts, wifi_strengths, published, lines_read,
                 gui_busy, sweep, device_table, after_table, popups, gui_error>>

\* while not stop_threads: the flag is clear, the thread enters
\* child.readline(), which (timeout=None) returns only when the child delivers
CaptureEnter(p) ==
  /\ UNCHANGED vision_vars
  /\ UNCHANGED env_vars
  /\ cap[p].pc = "read"
  /\ ~stop_threads
  /\ cap' = [cap EXCEPT ![p].pc = "readline"]
  /\ UNCHANGED <<now, stop_threads, root_alive, secure_location_enabled,
                 trusted_devices, trust_file, devices_info, detected_devices,
                 device_counts, wifi_strengths, published, lines_read,
                 gui_busy, sweep, device_table, after_table, popups, gui_error>>

\* readline returns a line: strip, the two regex searches and, on a match,
\* the locals of the sighting including current_time = time.time()
CaptureRead(p, inp) ==
  /\ UNCHANGED vision_vars
  /\ UNCHANGED env_vars
  /\ cap[p].pc = "readline"
  /\ stream = "open"
  /\ lines_read < MaxLines
  /\ lines_read' = lines_read + 1
  /\ LET line         == CaptureParse[inp].line
         mac_match    == CaptureParse[inp].mac_match
         signal_match == CaptureParse[inp].signal_match
     IN  IF line = <<>> \/ ~Matched(mac_match, signal_match)
           THEN \* continue / fall through to the next iteration
                /\ cap' = [cap EXCEPT ![p].line = inp, ![p].pc = "read"]
                /\ UNCHANGED published
           ELSE IF mac_match.found /\ signal_match.found
             THEN /\ cap' = [cap EXCEPT ![p] =
                       [pc           |-> "not_trusted",
                        line         |-> inp,
                        mac_address  |-> Lower(mac_match.group),
                        signal_value |-> IntOf(signal_match.group),
                        current_time |-> now]]
                  /\ published' = [published EXCEPT ![p] = <<>>]
             ELSE \* .group on None raises: except Exception -> break
                  /\ cap' = [cap EXCEPT ![p].line = inp, ![p].pc = "exited"]
                  /\ UNCHANGED published
  /\ UNCHANGED <<now, stop_threads, root_alive, secure_location_enabled,
                 trusted_devices, trust_file, devices_info, detected_devices,
                 device_counts, wifi_strengths, gui_busy, sweep, device_table,
                 after_table, popups, gui_error>>

\* readline at the end of the child's output: pexpect's readline matches EOF
\* and returns the empty rest, so "if not line: continue" goes round again
CaptureReadEof(p) ==
  /\ UNCHANGED vision_vars
  /\ UNCHANGED env_vars
  /\ cap[p].pc = "readline"
  /\ stream = "eof"
  /\ cap' = [cap EXCEPT ![p].line = BlankInput, ![p].pc = "read"]
  /\ UNCHANGED <<now, stop_threads, root_alive, secure_location_enabled,
                 trusted_devices, trust_file, devices_info, detected_devices,
                 device_counts, wifi_strengths, published, lines_read,
                 gui_busy, sweep, device_table, after_table, popups, gui_error>>

\* readline raises (any exception but TIMEOUT): except Exception -> break
CaptureReadFail(p) ==
  /\ UNCHANGED vision_vars
  /\ UNCHANGED env_vars
  /\ cap[p].pc = "readline"
  /\ stream = "error"
  /\ cap' = [cap EXCEPT ![p].pc = "exited"]
  /\ UNCHANGED <<now, stop_threads, root_alive, secure_location_enabled,
                 trusted_devices, trust_file, devices_info, detected_devices,
                 device_counts, wifi_strengths, published, lines_read,
                 gui_busy, sweep, device_table, after_table, popups, gui_error>>

\* the tcpdump child ends its output (how = "eof") or the pipe to it breaks
\* (how = "error")
StreamEnds(how) ==
  /\ UNCHANGED vision_vars
  /\ stream = "open"
  /\ stream' = how
  /\ UNCHANGED <<boot, store>>
  /\ UNCHANGED <<now, stop_threads, root_alive, secure_location_enabled,
                 trusted_devices, trust_file, devices_info, detected_devices,
                 device_counts, wifi_strengths, published, cap, lines_read,
                 gui_busy, sweep, device_table, after_table, popups, gui_error>>

\* if secure_location_enabled and (mac_address not in trusted_devices): publish
CaptureNotTrusted(p) ==
  /\ UNCHANGED vision_vars
  /\ UNCHANGED env_vars
  /\ cap[p].pc = "not_trusted"
  /\ published' =
       IF LogEnabled(secure_location_enabled) /\ cap[p].mac_address \notin DOMAIN trusted_devices
         THEN [published EXCEPT ![p] = Append(@,
                 NotTrustedMessage(cap[p].mac_address, Prefix(cap[p].mac_address, 8),
                                   cap[p].signal_value, cap[p].current_time))]
         ELSE published
  /\ cap' = [cap EXCEPT ![p].pc = "trusted"]
  /\ UNCHANGED <<now, stop_threads, root_alive, secure_location_enabled,
                 trusted_devices, trust_file, devices_info, detected_devices,
                 device_counts, wifi_strengths, lines_read, gui_busy, sweep,
                 device_table, after_table, popups, gui_error>>

\* if secure_location_enabled and (mac_address in trusted_devices): publish
CaptureTrusted(p) ==
  /\ UNCHANGED vision_vars
  /\ UNCHANGED env_vars
  /\ cap[p].pc = "trusted"
  /\ published' =
       IF LogEnabled(secure_location_enabled) /\ cap[p].mac_address \in DOMAIN trusted_devices
         THEN [published EXCEPT ![p] = Append(@,
                 TrustedMessage(cap[p].mac_address, trusted_devices[cap[p].mac_address],
                                Prefix(cap[p].mac_address, 8),
                                cap[p].signal_value, cap[p].current_time))]
         ELSE published
  /\ cap' = [cap EXCEPT ![p].pc = "commit"]
  /\ UNCHANGED <<now, stop_threads, root_alive, secure_location_enabled,
                 trusted_devices, trust_file, devices_info, detected_devices,
                 device_counts, wifi_strengths, lines_read, gui_busy, sweep,
                 device_table, after_table, popups, gui_error>>

\* devices_info[mac_address] = {...} and the updates of the plotting globals
CaptureCommit(p) ==
  /\ UNCHANGED vision_vars
  /\ UNCHANGED env_vars
  /\ cap[p].pc = "commit"
  /\ devices_info' = Upsert(devices_info, cap[p].mac_address,
                            NewRecord(cap[p].mac_address, cap[p].signal_value,
                                      cap[p].current_time, Prefix(cap[p].mac_address, 8)))
  /\ detected_devices' = detected_devices \cup {cap[p].mac_address}
  /\ device_counts' = DequeAppend(device_counts, Cardinality(detected_devices'))
  /\ wifi_strengths' = DequeAppend(wifi_strengths, cap[p].signal_value)
  /\ cap' = [cap EXCEPT ![p] = CapIdle("read")]
  /\ UNCHANGED <<now, stop_threads, root_alive, secure_location_enabled,
                 trusted_devices, trust_file, published, lines_read, gui_busy,
                 sweep, device_table, after_table, popups, gui_error>>

\* ------------------------------------------------------ Tk thread: main.py
RemoveAt(s, i) == SubSeq(s, 1, i - 1) \o SubSeq(s, i + 1, Len(s))

\* first statements of update_device_table: current_time, clear the rows,
\* copy the registry
BeginSweep ==
  /\ sweep' = [current_time |-> now, items |-> devices_info,
               at_start |-> devices_info, idx |-> 1, keys_to_remove |-> <<>>]
  /\ device_table' = <<>>
  /\ gui_busy' = TRUE

\* a pending root.after(5000, update_device_table) fires
TimerSweep ==
  /\ UNCHANGED vision_vars
  /\ UNCHANGED env_vars
  /\ root_alive /\ ~gui_busy
  /\ \E i \in 1..Len(after_table) :
       /\ after_table[i] <= now
       /\ after_table' = RemoveAt(after_table, i)
  /\ BeginSweep
  /\ UNCHANGED <<now, stop_threads, root_alive, secure_location_enabled,
                 trusted_devices, trust_file, devices_info, detected_devices,
                 device_counts, wifi_strengths, published, cap, lines_read,
                 popups, gui_error>>

\* one pass of "for mac, info in list(controller.devices_info.items())"
SweepIter ==
  /\ UNCHANGED vision_vars
  /\ UNCHANGED env_vars
  /\ gui_busy
  /\ sweep.idx <= Len(sweep.items)
  /\ LET view == ReaderView(sweep.items, devices_info)
     IN  IF Len(view) # Len(sweep.items)
           THEN \* RuntimeError: dictionary changed size during iteration
                /\ gui_error' = TRUE
                /\ gui_busy' = FALSE
                /\ sweep' = NoSweep
                /\ UNCHANGED device_table
           ELSE LET mac  == view[sweep.idx].key
                    info == view[sweep.idx].info
                    age  == sweep.current_time - info.last_seen
                IN  /\ IF Expired(age)
                         THEN /\ sweep' = [sweep EXCEPT !.idx = @ + 1,
                                             !.keys_to_remove = Append(@, mac)]
                              /\ UNCHANGED device_table
                         ELSE /\ sweep' = [sweep EXCEPT !.idx = @ + 1]
                              /\ device_table' = Append(device_table,
                                   TableRow(mac, info, age, trusted_devices))
                    /\ UNCHANGED <<gui_error, gui_busy>>
  /\ UNCHANGED <<now, stop_threads, root_alive, secure_location_enabled,
                 trusted_devices, trust_file, devices_info, detected_devices,
                 device_counts, wifi_strengths, published, cap, lines_read,
                 after_table, popups>>

\* one pass of "for mac in keys_to_remove: del controller.devices_info[mac]"
SweepDelete ==
  /\ UNCHANGED vision_vars
  /\ UNCHANGED env_vars
  /\ gui_busy
  /\ sweep.idx > Len(sweep.items)
  /\ sweep.keys_to_remove # <<>>
  /\ LET mac == Head(sweep.keys_to_remove)
     IN  IF HasKey(devices_info, mac)
           THEN /\ devices_info' = DictDel(devices_info, mac)
                /\ sweep' = [sweep EXCEPT !.keys_to_remove = Tail(@)]
                /\ UNCHANGED <<gui_error, gui_busy>>
           ELSE \* KeyError
                /\ gui_error' = TRUE
                /\ gui_busy' = FALSE
                /\ sweep' = NoSweep
                /\ UNCHANGED devices_info
  /\ UNCHANGED <<now, stop_threads, root_alive, secure_location_enabled,
                 trusted_devices, trust_file, detected_devices, device_counts,
                 wifi_strengths, published, cap, lines_read, device_table,
                 after_table, popups>>

\* root.after(5000, update_device_table) at the end of the function
SweepSchedule ==
  /\ UNCHANGED vision_vars
  /\ UNCHANGED env_vars
  /\ gui_busy
  /\ sweep.idx > Len(sweep.items)
  /\ sweep.keys_to_remove = <<>>
  /\ after_table' = Append(after_table, now + TABLE_PERIOD)
  /\ gui_busy' = FALSE
  /\ sweep' = NoSweep
  /\ UNCHANGED <<now, stop_threads, root_alive, secure_location_enabled,
                 trusted_devices, trust_file, devices_info, detected_devices,
                 device_counts, wifi_strengths, published, cap, lines_read,
                 device_table, popups, gui_error>>

\* on_device_double_click on row r: the pop-up opens for a row showing "No"
DoubleClick(r) ==
  /\ UNCHANGED vision_vars
  /\ UNCHANGED env_vars
  /\ root_alive /\ ~gui_busy
  /\ r \in 1..Len(device_table)
  /\ device_table[r].trusted = "No"
  /\ Len(popups) < MaxPopups
  /\ popups' = Append(popups, device_table[r].mac)
  /\ UNCHANGED <<now, stop_threads, root_alive, secure_location_enabled,
                 trusted_devices, trust_file, devices_info, detected_devices,
                 device_counts, wifi_strengths, published, cap, lines_read,
                 gui_busy, sweep, device_table, after_table, gui_error>>

\* add_and_close of pop-up i with the typed text: add_trusted_device, then
\* update_device_table() is entered, popup.destroy().  With write_ok false
\* the open(..., "a") / write of add_trusted_device raises after the dict was
\* assigned: the exception leaves add_and_close, the pop-up stays
AddAndClose(i, typed, write_ok) ==
  /\ UNCHANGED vision_vars
  /\ UNCHANGED env_vars
  /\ root_alive /\ ~gui_busy
  /\ i \in 1..Len(popups)
  /\ LET name == Strip(typed)
         res  == add_trusted_device(trusted_devices, trust_file, popups[i], name)
     IN  /\ write_ok \/ (name # <<>> /\ res.file # trust_file)
         /\ IF name # <<>> /\ ~write_ok
              THEN /\ trusted_devices' = res.td
                   /\ UNCHANGED <<trust_file, popups, sweep, device_table, gui_busy>>
              ELSE /\ popups' = RemoveAt(popups, i)
                   /\ IF name # <<>>
                        THEN /\ trusted_devices' = res.td
                             /\ trust_file' = res.file
                             /\ BeginSweep
                        ELSE UNCHANGED <<trusted_devices, trust_file, sweep,
                                         device_table, gui_busy>>
  /\ UNCHANGED <<now, stop_threads, root_alive, secure_location_enabled,
                 devices_info, detected_devices, device_counts, wifi_strengths,
                 published, cap, lines_read, after_table, gui_error>>

\* the Cancel button of pop-up i
CancelPopup(i) ==
  /\ UNCHANGED vision_vars
  /\ UNCHANGED env_vars
  /\ root_alive /\ ~gui_busy
  /\ i \in 1..Len(popups)
  /\ popups' = RemoveAt(popups, i)
  /\ UNCHANGED <<now, stop_threads, root_alive, secure_location_enabled,
                 trusted_devices, trust_file, devices_info, detected_devices,
                 device_counts, wifi_strengths, published, cap, lines_read,
                 gui_busy, sweep, device_table, after_table, gui_error>>

\* update_secure_location after the check box was clicked
ToggleSecure ==
  /\ UNCHANGED vision_vars
  /\ UNCHANGED env_vars
  /\ root_alive /\ ~gui_busy
  /\ secure_location_enabled' = ~secure_location_enabled
  /\ UNCHANGED <<now, stop_threads, root_alive, trusted_devices, trust_file,
                 devices_info, detected_devices, device_counts, wifi_strengths,
                 published, cap, lines_read, gui_busy, sweep, device_table,
                 after_table, popups, gui_error>>

\* close_program: the flag is set and the root destroyed
CloseProgram ==
  /\ UNCHANGED vision_vars
  /\ UNCHANGED env_vars
  /\ root_alive /\ ~gui_busy
  /\ stop_threads' = TRUE
  /\ root_alive' = FALSE
  /\ UNCHANGED <<now, secure_location_enabled, trusted_devices, trust_file,
                 devices_info, detected_devices, device_counts, wifi_strengths,
                 published, cap, lines_read, gui_busy, sweep, device_table,
                 after_table, popups, gui_error>>

\* the wall clock advances
Tick ==
  /\ UNCHANGED vision_vars
  /\ UNCHANGED env_vars
  /\ now + ClockStep <= MaxTime
  /\ now' = now + ClockStep
  /\ UNCHANGED <<stop_threads, root_alive, secure_location_enabled,
                 trusted_devices, trust_file, devices_info, detected_devices,
                 device_counts, wifi_strengths, published, cap, lines_read,
                 gui_busy, sweep, device_table, after_table, popups, gui_error>>

\* ------------------------------------------- frame sampler and evaluation
\* a sampler that writes the new image into the baseline as well
WebcamSampleIntoBaseline(new_frame) ==
  /\ cam.pc = "loop"
  /\ ~stop_threads
  /\ frame' = new_frame
  /\ baseline_image' = new_frame
  /\ cam' = [cam EXCEPT !.ret = TRUE]
  /\ UNCHANGED <<var_frame_diff, var_background_sub, var_contour, var_ssim,
                 report, after_eval>>
  /\ UNCHANGED wifi_vars

\* webcam_feed: cap.read() succeeded, frame = cv2.resize(new_frame, ...); the
\* camera frames already have the configured size
WebcamSample(new_frame) ==
  /\ cam.pc = "loop"
  /\ ~stop_threads
  /\ frame' = new_frame
  /\ cam' = [cam EXCEPT !.ret = TRUE]
  /\ UNCHANGED <<baseline_image, var_frame_diff, var_background_sub, var_contour,
                 var_ssim, report, after_eval>>
  /\ UNCHANGED wifi_vars

\* a failed read that clears the current frame
WebcamFailClears ==
  /\ cam.pc = "loop"
  /\ ~stop_threads
  /\ frame' = NoFrame
  /\ cam' = [cam EXCEPT !.ret = FALSE]
  /\ UNCHANGED <<baseline_image, var_frame_diff, var_background_sub, var_contour,
                 var_ssim, report, after_eval>>
  /\ UNCHANGED wifi_vars

\* webcam_feed: cap.read() returned ret = False; nothing is assigned and the
\* loop goes round
WebcamFail ==
  /\ cam.pc = "loop"
  /\ ~stop_threads
  /\ cam' = [cam EXCEPT !.ret = FALSE]
  /\ UNCHANGED <<frame, baseline_image, var_frame_diff, var_background_sub,
                 var_contour, var_ssim, report, after_eval>>
  /\ UNCHANGED wifi_vars

\* webcam_feed: while not stop_threads is left, cap.release()
WebcamExit ==
  /\ cam.pc = "loop"
  /\ stop_threads
  /\ cam' = [cam EXCEPT !.pc = "exited"]
  /\ UNCHANGED <<frame, baseline_image, var_frame_diff, var_background_sub,
                 var_contour, var_ssim, report, after_eval>>
  /\ UNCHANGED wifi_vars

\* capture_baseline
CaptureBaseline ==
  /\ root_alive
  /\ baseline_image' = IF frame # NoFrame THEN frame ELSE baseline_image
  /\ UNCHANGED <<frame, var_frame_diff, var_background_sub, var_contour,
                 var_ssim, report>>
  /\ UNCHANGED sched_vars
  /\ UNCHANGED wifi_vars

\* one of the four detection check boxes is clicked
ToggleMethod(m) ==
  /\ root_alive
  /\ var_frame_diff' = IF m = "fd" THEN ~var_frame_diff ELSE var_frame_diff
  /\ var_background_sub' = IF m = "bs" THEN ~var_background_sub ELSE var_background_sub
  /\ var_contour' = IF m = "contour" THEN ~var_contour ELSE var_contour
  /\ var_ssim' = IF m = "ssim" THEN ~var_ssim ELSE var_ssim
  /\ UNCHANGED <<frame, baseline_image, report>>
  /\ UNCHANGED sched_vars
  /\ UNCHANGED wifi_vars

\* detection_results[label] = value, when the method is enabled
Put(results, enabled, label, value) ==
  IF enabled THEN Append(results, [method |-> label, value |-> value]) ELSE results

\* the mean line / overlay: present only when some method is enabled
MeanIfAny(results) == IF results # <<>> THEN <<MeanOf(results)>> ELSE <<>>

\* update_gui with a frame and a baseline: the overlay values
GuiResults(baseline, current) ==
  LET contour == detect_contour_detection(baseline, current)
      r1 == Put(<<>>, var_frame_diff, "Frame Diff",
                detect_frame_differencing(baseline, current).diff_percent)
      r2 == Put(r1, var_background_sub, "Background Sub",
                detect_background_subtraction(baseline, current).diff_percent)
      r3 == Put(r2, var_contour, "Contour", contour.diff_percent)
      display_frame == IF var_contour THEN contour.contour_img ELSE current
  IN  Put(r3, var_ssim, "SSIM", detect_ssim(baseline, display_frame).diff_percent)

\* a tick that reports every method at zero when nothing can be compared
UnavailableAsZero(by) ==
  LET zeros == [i \in 1..4 |-> [method |-> <<"Frame Differencing",
                   "Background Subtraction", "Contour Detection", "SSIM">>[i],
                   value |-> 0]]
  IN  [by |-> by, available |-> TRUE, results |-> zeros, mean |-> <<MeanOf(zeros)>>]

\* what a tick gives out when baseline or frame is missing: the line
\* "Baseline image or current frame not available for detection." of
\* print_detection_results, the bare frame of update_gui; no value, no mean
Unavailable(by) ==
  [by |-> by, available |-> FALSE, results |-> <<>>, mean |-> <<>>]

\* a tick started now calls at least one detect_* function
InvokesAlgorithm ==
  /\ frame # NoFrame
  /\ baseline_image # NoFrame
  /\ var_frame_diff \/ var_background_sub \/ var_contour \/ var_ssim

\* update_gui: one 100 ms tick; without a frame nothing is drawn, without a
\* baseline the frame is shown with no overlay.  With fails a detect_* call
\* raises: the exception leaves the callback before root.after(100, update_gui)
UpdateGui(fails) ==
  /\ root_alive
  /\ after_eval["update_gui"]
  /\ fails => InvokesAlgorithm
  /\ IF fails
       THEN /\ after_eval' = [after_eval EXCEPT !["update_gui"] = FALSE]
            /\ UNCHANGED report
       ELSE /\ report' =
                 IF frame = NoFrame THEN report
                 ELSE IF baseline_image # NoFrame
                   THEN LET results == GuiResults(baseline_image, frame)
                        IN  [by |-> "update_gui", available |-> TRUE,
                             results |-> results, mean |-> MeanIfAny(results)]
                   ELSE Unavailable("update_gui")
            /\ UNCHANGED after_eval
  /\ UNCHANGED <<frame, baseline_image, var_frame_diff, var_background_sub,
                 var_contour, var_ssim, cam>>
  /\ UNCHANGED wifi_vars

\* print_detection_results with a frame and a baseline: the percentage lines
LogResults(baseline, current_frame) ==
  LET r1 == Put(<<>>, var_frame_diff, "Frame Differencing",
                detect_frame_differencing(baseline, current_frame).diff_percent)
      r2 == Put(r1, var_background_sub, "Background Subtraction",
                detect_background_subtraction(baseline, current_frame).diff_percent)
      r3 == Put(r2, var_contour, "Contour Detection",
                detect_contour_detection(baseline, current_frame).diff_percent)
  IN  Put(r3, var_ssim, "SSIM", detect_ssim(baseline, current_frame).diff_percent)

\* print_detection_results: one tick, the block goes to publish_log.  With
\* fails a detect_* call raises: the exception leaves the callback before
\* publish_log and before root.after(CAMERA_LOG_INTERVAL, print_detection_results)
PrintDetectionResults(fails) ==
  /\ root_alive
  /\ after_eval["print_detection_results"]
  /\ fails => InvokesAlgorithm
  /\ IF fails
       THEN /\ after_eval' = [after_eval EXCEPT !["print_detection_results"] = FALSE]
            /\ UNCHANGED report
       ELSE /\ report' =
                 IF baseline_image # NoFrame /\ frame # NoFrame
                   THEN LET results == LogResults(baseline_image, frame)
                        IN  [by |-> "print_detection_results", available |-> TRUE,
                             results |-> results, mean |-> MeanIfAny(results)]
                   ELSE Unavailable("print_detection_results")
            /\ UNCHANGED after_eval
  /\ UNCHANGED <<frame, baseline_image, var_frame_diff, var_background_sub,
                 var_contour, var_ssim, cam>>
  /\ UNCHANGED wifi_vars

\* ----------------------------------------------------------------- start-up
\* "python main.py" before "import controller": nothing is loaded, no window,
\* no thread; trusted_devices.txt is in one of its possible states
InitStartup ==
  /\ now = 0
  /\ stop_threads = FALSE
  /\ root_alive = FALSE
  /\ secure_location_enabled = TRUE
  /\ store \in {"absent", "readable", "unreadable"}
  /\ trust_file \in (IF store = "absent" THEN {NoFile} ELSE InitialTrustFiles)
  /\ trusted_devices = <<>>
  /\ devices_info = <<>>
  /\ detected_devices = {}
  /\ device_counts = <<>>
  /\ wifi_strengths = <<>>
  /\ published = [p \in Producers |-> <<>>]
  /\ cap = [p \in Producers |-> CapIdle("off")]
  /\ lines_read = 0
  /\ gui_busy = FALSE
  /\ sweep = NoSweep
  /\ device_table = <<>>
  /\ after_table = <<>>
  /\ popups = <<>>
  /\ gui_error = FALSE
  /\ stream = "open"
  /\ boot = "import"
  /\ frame = NoFrame
  /\ baseline_image = NoFrame
  /\ var_frame_diff = TRUE
  /\ var_background_sub = TRUE
  /\ var_contour = TRUE
  /\ var_ssim = TRUE
  /\ report = NoReport
  /\ cam = [pc |-> "off", ret |-> TRUE]
  /\ after_eval = [t \in EvalTicks |-> FALSE]

\* main.py up to root.mainloop(): "import controller" runs
\* load_trusted_devices() at module level (no try/except around the open
\* calls), then the window is built, the threads are started and the three
\* periodic functions are called once
StartUp ==
  /\ boot = "import"
  /\ IF store = "unreadable"
       THEN \* open(trusted_devices_file, "r") raises out of the import
            /\ boot' = "crashed"
            /\ UNCHANGED <<store, trust_file, trusted_devices, root_alive, cap,
                           after_table, cam, after_eval>>
       ELSE /\ boot' = "running"
            /\ store' = "readable"
            /\ trust_file' = IF store = "absent" THEN <<>> ELSE trust_file
            /\ trusted_devices' = load_trusted_devices(trust_file')
            /\ root_alive' = TRUE
            /\ cap' = [cap EXCEPT ![1] = CapIdle("read")]
            /\ after_table' = <<now + TABLE_PERIOD>>
            /\ cam' = [cam EXCEPT !.pc = "loop"]
            /\ after_eval' = [t \in EvalTicks |-> TRUE]
  /\ UNCHANGED <<now, stop_threads, secure_location_enabled, devices_info,
                 detected_devices, device_counts, wifi_strengths, published,
                 lines_read, gui_busy, sweep, device_table, popups, gui_error,
                 stream>>
  /\ UNCHANGED <<frame, baseline_image, var_frame_diff, var_background_sub,
                 var_contour, var_ssim, report>>

\* ------------------------------------- wire format: data_analysis.py
\* "pat in s"
Contains(s, pat) == \E i \in 1..Len(s) : StartsAt(s, i, pat)

\* a regex class is the set of characters in its brackets and whether it is
\* negated; \s is [neg |-> FALSE, set |-> Whitespace], [^,] is
\* [neg |-> TRUE, set |-> {","}]
InClass(c, cls) == (c \in cls.set) # cls.neg

\* length of the longest run of characters of the class starting at s[i]
RunOf(s, i, cls) ==
  Max({n \in 0..(Len(s) + 1 - i) : \A k \in i..(i + n - 1) : InClass(s[k], cls)})

\* one attempt of the pattern  mark \s* (X+) tail  (gap: \s* before tail) at
\* position i.  \s* and the group are greedy; \s* gives spaces back to the
\* group when nothing else is left for X+ (X = [^,] takes spaces too).  Every
\* pattern with a tail has a class whose shorter groups cannot meet the tail.
GroupAt(line, i, mark, cls, gap, tail) ==
  LET a  == i + Len(mark)
      k  == RunLen(line, a, Whitespace)
      js == {j \in 0..k : RunOf(line, a + j, cls) >= 1}
      b  == a + Max(js)
      n  == RunOf(line, b, cls)
      e  == IF gap THEN b + n + RunLen(line, b + n, Whitespace) ELSE b + n
  IN  IF StartsAt(line, i, mark) /\ js # {} /\ StartsAt(line, e, tail)
        THEN [found |-> TRUE, group |-> SubSeq(line, b, b + n - 1)]
        ELSE NoMatch

\* re.search of such a pattern: the leftmost position where it matches
SearchGroup(line, mark, cls, gap, tail) ==
  LET hits == {i \in 1..Len(line) :
                 StartsAt(line, i, mark) /\ GroupAt(line, i, mark, cls, gap, tail).found}
  IN  IF hits = {} THEN NoMatch ELSE GroupAt(line, Min(hits), mark, cls, gap, tail)

\* re.match(r"\[(.*?)\]", line): the text up to the first closing bracket
MatchStatus(line) ==
  LET closes == {i \in 2..Len(line) :
                   line[i] = "]" /\ \A k \in 2..(i - 1) : line[k] # "\n"}
  IN  IF line # <<>> /\ line[1] = "[" /\ closes # {}
        THEN [found |-> TRUE, group |-> SubSeq(line, 2, Min(closes) - 1)]
        ELSE NoMatch

\* str.upper()
Upper(s) ==
  LET lower == <<"a", "b", "c", "d", "e", "f", "g", "h", "i", "j", "k", "l", "m", "n", "o", "p", "q", "r", "s", "t", "u", "v", "w", "x", "y", "z">>
      upper == <<"A", "B", "C", "D", "E", "F", "G", "H", "I", "J", "K", "L", "M", "N", "O", "P", "Q", "R", "S", "T", "U", "V", "W", "X", "Y", "Z">>
  IN  [i \in 1..Len(s) |->
         IF \E k \in 1..26 : lower[k] = s[i]
           THEN upper[CHOOSE k \in 1..26 : lower[k] = s[i]]
           ELSE s[i]]

\* int(text) accepts an optional sign and digits, and raises otherwise
IntText(g) ==
  /\ g # <<>>
  /\ LET d == IF g[1] = "-" THEN Tail(g) ELSE g
     IN  d # <<>> /\ \A k \in 1..Len(d) : d[k] \in Digits
PyInt(g) == IF g[1] = "-" THEN IntOf(g) ELSE DecValue(g, Len(g))

\* f"{signal_value}"
StrInt(v) == IF v < 0 THEN <<"-">> \o DecDigits(0 - v) ELSE DecDigits(v)

\* two decimal digits
TwoDigits(n) == <<DigitChar((n \div 10) % 10), DigitChar(n % 10)>>

\* time.ctime(t) for the first hour of the epoch (UTC)
CTime(t) ==
  <<"T", "h", "u", " ", "J", "a", "n", " ", " ", "1", " ", "0", "0", ":">> \o TwoDigits(t \div 60) \o <<":">> \o TwoDigits(t % 60)
  \o <<" ", "1", "9", "7", "0">>

\* the f-strings of run_tcpdump: the text of the line handed to publish_log
WireLine(m) ==
  IF m.tag = "TRUSTED"
    THEN <<"[", "T", "R", "U", "S", "T", "E", "D", "]", " ", "M", "A", "C", ":", " ">> \o m.mac
         \o <<",", " ", "N", "a", "m", "e", ":", " ">> \o m.name
         \o <<",", " ", "V", "e", "n", "d", "o", "r", ":", " ">> \o m.vendor
         \o <<",", " ", "S", "i", "g", "n", "a", "l", ":", " ">> \o StrInt(m.signal)
         \o <<" ", "d", "B", "m", ",", " ", "T", "i", "m", "e", ":", " ">> \o CTime(m.time)
    ELSE <<"[", "N", "O", "T", " ", "T", "R", "U", "S", "T", "E", "D", "]", " ", "M", "A", "C", ":", " ">> \o m.mac
         \o <<",", " ", "V", "e", "n", "d", "o", "r", ":", " ">> \o m.vendor
         \o <<",", " ", "S", "i", "g", "n", "a", "l", ":", " ">> \o StrInt(m.signal)
         \o <<" ", "d", "B", "m", ",", " ", "T", "i", "m", "e", ":", " ">> \o CTime(m.time)

\* the body of the loop of parse_wifi_detection on one line: the entries it
\* appends, or raised when int() fails (the timestamp column is left out)
ParseWifiLine(line) ==
  LET status_match == MatchStatus(line)
      mac_match    == SearchGroup(line, <<"M", "A", "C", ":">>,
                                  [neg |-> FALSE, set |-> HexColon], FALSE, <<>>)
      vendor_match == SearchGroup(line, <<"V", "e", "n", "d", "o", "r", ":">>,
                                  [neg |-> TRUE, set |-> {","}], FALSE, <<>>)
      signal_match == SearchGroup(line, <<"S", "i", "g", "n", "a", "l", ":">>,
                                  [neg |-> FALSE, set |-> Digits \cup {"-"}], TRUE,
                                  <<"d", "B", "m">>)
      time_match   == Contains(line, <<"T", "i", "m", "e", ":">>)
      status       == Strip(status_match.group)
      name_match   == SearchGroup(line, <<"N", "a", "m", "e", ":">>,
                                  [neg |-> TRUE, set |-> {","}], FALSE, <<>>)
  IN  IF ~(StartsAt(line, 1, <<"[">>) /\ Contains(line, <<"M", "A", "C", ":">>))
         \/ ~(status_match.found /\ mac_match.found /\ vendor_match.found
               /\ signal_match.found /\ time_match)
        THEN [raised |-> FALSE, entries |-> <<>>]
      ELSE IF ~IntText(Strip(signal_match.group))
        THEN [raised |-> TRUE, entries |-> <<>>]
      ELSE [raised |-> FALSE,
            entries |-> <<[status       |-> status,
                           mac          |-> Strip(mac_match.group),
                           vendor       |-> Strip(vendor_match.group),
                           trusted_name |->
                             IF Contains(Upper(status), <<"T", "R", "U", "S", "T", "E", "D">>) /\ name_match.found
                               THEN Strip(name_match.group) ELSE <<>>,
                           signal       |-> PyInt(Strip(signal_match.group))]>>]

RECURSIVE parse_wifi_detection(_)
parse_wifi_detection(lines) ==
  IF lines = <<>> THEN [raised |-> FALSE, wifi_list |-> <<>>]
  ELSE LET h == ParseWifiLine(Head(lines))
           r == parse_wifi_detection(Tail(lines))
       IN  IF h.raised \/ r.raised THEN [raised |-> TRUE, wifi_list |-> <<>>]
           ELSE [raised |-> FALSE, wifi_list |-> h.entries \o r.wifi_list]

\* f"{x:.2f}" of a percentage held in hundredths
Fmt2f(v) == DecDigits(v \div 100) \o <<".">> \o TwoDigits(v % 100)

\* the hundredths f"{sum/len:.2f}" prints for the mean num/den: the nearest,
\* a tie going to the even digit (a tie is an exact binary fraction)
RoundHundredths(num, den) ==
  LET q == num \div den
      r == num % den
  IN  IF 2 * r < den THEN q
      ELSE IF 2 * r > den THEN q + 1
      ELSE IF q % 2 = 0 THEN q ELSE q + 1

\* the text of a label of print_detection_results
LabelText(label) ==
  CASE label = "Frame Differencing" -> <<"F", "r", "a", "m", "e", " ", "D", "i", "f", "f", "e", "r", "e", "n", "c", "i", "n", "g">>
    [] label = "Background Subtraction" -> <<"B", "a", "c", "k", "g", "r", "o", "u", "n", "d", " ", "S", "u", "b", "t", "r", "a", "c", "t", "i", "o", "n">>
    [] label = "Contour Detection" -> <<"C", "o", "n", "t", "o", "u", "r", " ", "D", "e", "t", "e", "c", "t", "i", "o", "n">>
    [] label = "SSIM" -> <<"S", "S", "I", "M">>

\* a block that prints a disabled method as zero percent
MethodLineZero(results, label) ==
  LET ks == {k \in 1..Len(results) : results[k].method = label}
  IN  LabelText(label) \o <<":", " ">>
      \o Fmt2f(IF ks # {} THEN results[CHOOSE k \in ks : TRUE].value ELSE 0)
      \o <<"%">>

\* the line of one method: its value when the method was computed in this
\* tick (its entry is in detection_results), DISABLED otherwise
MethodLine(results, label) ==
  LET ks == {k \in 1..Len(results) : results[k].method = label}
  IN  IF ks # {}
        THEN LabelText(label) \o <<":", " ">>
             \o Fmt2f(results[CHOOSE k \in ks : TRUE].value) \o <<"%">>
        ELSE LabelText(label) \o <<":", " ", "D", "I", "S", "A", "B", "L", "E", "D">>

\* the last line of the block
MeanLine(mean) ==
  IF mean # <<>>
    THEN <<"M", "e", "a", "n", " ", "o", "f", " ", "E", "n", "a", "b", "l", "e", "d", " ", "M", "e", "t", "h", "o", "d", "s", ":", " ">>
         \o Fmt2f(RoundHundredths(mean[1].num, mean[1].den)) \o <<"%">>
    ELSE <<"M", "e", "a", "n", " ", "o", "f", " ", "E", "n", "a", "b", "l", "e", "d", " ", "M", "e", "t", "h", "o", "d", "s", ":", " ", "N", "/", "A", " ", "(", "a", "l", "l", " ", "m", "e", "t", "h", "o", "d", "s", " ", "d", "i", "s", "a", "b", "l", "e", "d", ")">>

\* output_lines of the tick reported in rep
OutputLines(rep) ==
  IF rep.available
    THEN <<<<"=", "=", "=", " ", "F", "r", "e", "e", " ", "S", "p", "a", "c", "e", " ", "D", "e", "t", "e", "c", "t", "i", "o", "n", " ", "R", "e", "s", "u", "l", "t", "s", " ", "=", "=", "=">>>>
         \o <<MethodLine(rep.results, "Frame Differencing"),
              MethodLine(rep.results, "Background Subtraction"),
              MethodLine(rep.results, "Contour Detection"),
              MethodLine(rep.results, "SSIM")>>
         \o <<MeanLine(rep.mean)>>
    ELSE <<<<"B", "a", "s", "e", "l", "i", "n", "e", " ", "i", "m", "a", "g", "e", " ", "o", "r", " ", "c", "u", "r", "r", "e", "n", "t", " ", "f", "r", "a", "m", "e", " ", "n", "o", "t", " ", "a", "v", "a", "i", "l", "a", "b", "l", "e", " ", "f", "o", "r", " ", "d", "e", "t", "e", "c", "t", "i", "o", "n", ".">>>>

\* "\n".join(output_lines)
RECURSIVE Join(_)
Join(lines) ==
  IF lines = <<>> THEN <<>>
  ELSE IF Len(lines) = 1 THEN lines[1]
  ELSE lines[1] \o <<"\n">> \o Join(Tail(lines))

\* raw_text.splitlines()
RECURSIVE SplitLines(_)
SplitLines(text) ==
  IF text = <<>> THEN <<>>
  ELSE LET nl == {i \in 1..Len(text) : text[i] = "\n"}
       IN  IF nl = {} THEN <<text>>
           ELSE <<SubSeq(text, 1, Min(nl) - 1)>>
                \o SplitLines(SubSeq(text, Min(nl) + 1, Len(text)))

\* float(text) of a group of [\d.]+ : digits with at most one point
FloatText(g) ==
  /\ Cardinality({i \in 1..Len(g) : g[i] = "."}) <= 1
  /\ \E i \in 1..Len(g) : g[i] \in Digits
PyFloat(g) ==
  LET ds == SelectSeq(g, LAMBDA c : c \in Digits)
      ps == {i \in 1..Len(g) : g[i] = "."}
      fr == IF ps = {} THEN 0 ELSE Len(g) - Min(ps)
  IN  [num |-> DecValue(ds, Len(ds)), den |-> 10 ^ fr]

\* the if/elif chain of parse_free_space_detection: label and key, in order
Fields ==
  <<[label |-> <<"F", "r", "a", "m", "e", " ", "D", "i", "f", "f", "e", "r", "e", "n", "c", "i", "n", "g", ":">>,
     key |-> "frame_differencing"],
    [label |-> <<"B", "a", "c", "k", "g", "r", "o", "u", "n", "d", " ", "S", "u", "b", "t", "r", "a", "c", "t", "i", "o", "n", ":">>,
     key |-> "background_subtraction"],
    [label |-> <<"C", "o", "n", "t", "o", "u", "r", " ", "D", "e", "t", "e", "c", "t", "i", "o", "n", ":">>,
     key |-> "contour_detection"],
    [label |-> <<"S", "S", "I", "M", ":">>, key |-> "ssim"],
    [label |-> <<"M", "e", "a", "n", " ", "o", "f", " ", "E", "n", "a", "b", "l", "e", "d", " ", "M", "e", "t", "h", "o", "d", "s", ":">>,
     key |-> "mean"]>>

\* the body of the loop of parse_free_space_detection on one line
ParseFreeSpaceLine(acc, line) ==
  LET hit == {i \in 1..5 : Contains(line, Fields[i].label)}
      i   == Min(hit)
      m   == SearchGroup(line, Fields[i].label,
                         [neg |-> FALSE, set |-> Digits \cup {"."}], FALSE, <<"%">>)
  IN  IF acc.raised \/ hit = {} THEN acc
      ELSE IF ~m.found THEN acc
      ELSE IF ~FloatText(m.group) THEN [raised |-> TRUE, result |-> acc.result]
      ELSE [raised |-> FALSE,
            result |-> DictSet(acc.result, Fields[i].key, PyFloat(m.group))]

RECURSIVE ParseFreeSpaceLines(_, _)
ParseFreeSpaceLines(lines, acc) ==
  IF lines = <<>> THEN acc
  ELSE ParseFreeSpaceLines(Tail(lines), ParseFreeSpaceLine(acc, Head(lines)))

parse_free_space_detection(lines) ==
  ParseFreeSpaceLines(lines, [raised |-> FALSE, result |-> <<>>])

\* ----------------------------------------------------------- specifications
vars == <<wifi_vars, vision_vars>>

\* one step of a capture thread on a line drawn from inputs
CaptureStep(p, inputs) ==
  \/ CaptureExit(p)
  \/ CaptureEnter(p)
  \/ \E inp \in inputs : CaptureRead(p, inp)
  \/ CaptureNotTrusted(p)
  \/ CaptureTrusted(p)
  \/ CaptureCommit(p)

\* one step of update_device_table
SweepStep ==
  \/ TimerSweep
  \/ SweepIter
  \/ SweepDelete
  \/ SweepSchedule

\* the operator registering trusted devices from the table; oks are the
\* outcomes the append to trusted_devices.txt can have
PopupStep(oks) ==
  \/ \E r \in 1..MaxLines : DoubleClick(r)
  \/ \E i \in 1..MaxPopups, typed \in TypedNames, write_ok \in oks :
       AddAndClose(i, typed, write_ok)
  \/ \E i \in 1..MaxPopups : CancelPopup(i)

\* lines that carry both tokens
SightingInputs == {inp \in CaptureInputs : inp.tok # <<>> /\ inp.sig # 0}

\* capture and eviction: the capture thread on every kind of line, the
\* periodic sweep, the Secure Location check box and the Close button
Next ==
  \/ CaptureStep(1, CaptureInputs)
  \/ SweepStep
  \/ ToggleSecure
  \/ CloseProgram
  \/ Tick

Init == InitWifi({1}) /\ InitVision
Spec == Init /\ [][Next]_vars

\* the operator session on a store that takes every append: sightings, the
\* sweep, trust registration and the Close button
NextTrust ==
  \/ CaptureStep(1, SightingInputs)
  \/ SweepStep
  \/ PopupStep({TRUE})
  \/ ToggleSecure
  \/ CloseProgram
  \/ Tick

SpecTrust == Init /\ [][NextTrust]_vars

\* the program from its start, on every state of trusted_devices.txt
NextStartup ==
  \/ StartUp
  \/ Next

SpecStartup == InitStartup /\ [][NextStartup]_vars

\* the line of one device
OneSighting == {inp \in CaptureInputs : inp.tok = TokA /\ inp.sig = 0 - 69}

\* trust registration on a store whose append can fail (open or write raises)
NextTrustFail ==
  \/ CaptureStep(1, OneSighting)
  \/ SweepStep
  \/ PopupStep(BOOLEAN)
  \/ CloseProgram
  \/ Tick

SpecTrustFail == Init /\ [][NextTrustFail]_vars

\* two threads running run_tcpdump on the same registry
NextTwoProducers ==
  \/ \E p \in Producers : CaptureStep(p, CaptureInputs)
  \/ SweepStep
  \/ CloseProgram
  \/ Tick

InitTwoProducers == InitWifi({1, 2}) /\ InitVision
SpecTwoProducers == InitTwoProducers /\ [][NextTwoProducers]_vars

\* the whole program on one device and a camera that shows black or white:
\* capture thread, sweep, frame sampler, baseline button, both evaluation
\* ticks and the Close button
NextBaseline ==
  \/ CaptureStep(1, OneSighting)
  \/ SweepStep
  \/ \E new_frame \in {Black, White} : WebcamSample(new_frame)
  \/ CaptureBaseline
  \/ UpdateGui(FALSE)
  \/ PrintDetectionResults(FALSE)
  \/ CloseProgram
  \/ Tick

SpecBaseline == Init /\ [][NextBaseline]_vars

\* the steps thread p of run_tcpdump takes by itself, given what the child
\* has delivered
CaptureOwnStep(p) ==
  \/ CaptureExit(p)
  \/ CaptureEnter(p)
  \/ CaptureReadEof(p)
  \/ CaptureReadFail(p)
  \/ CaptureNotTrusted(p)
  \/ CaptureTrusted(p)
  \/ CaptureCommit(p)

\* the two producers until they end: the capture thread on a child that can
\* deliver a line, end its output or break, the frame sampler, update_gui and
\* the Close button.  The threads are scheduled fairly; nothing obliges the
\* child to deliver, the camera to succeed or the operator to act.
NextShutdown ==
  \/ CaptureOwnStep(1)
  \/ \E inp \in OneSighting : CaptureRead(1, inp)
  \/ \E how \in {"eof", "error"} : StreamEnds(how)
  \/ WebcamSample(Black)
  \/ WebcamFail
  \/ WebcamExit
  \/ UpdateGui(FALSE)
  \/ CloseProgram
  \/ Tick

SpecShutdown ==
  /\ Init
  /\ [][NextShutdown]_vars
  /\ WF_vars(CaptureOwnStep(1))
  /\ WF_vars(WebcamExit)

\* the free-space side: the frame sampler, the operator's baseline and check
\* boxes, and the two periodic evaluation ticks
NextVision ==
  \/ \E new_frame \in CameraFrames : WebcamSample(new_frame)
  \/ WebcamFail
  \/ WebcamExit
  \/ CaptureBaseline
  \/ \E m \in {"fd", "bs", "contour", "ssim"} : ToggleMethod(m)
  \/ \E fails \in BOOLEAN : UpdateGui(fails)
  \/ \E fails \in BOOLEAN : PrintDetectionResults(fails)
  \/ CloseProgram

SpecVision == Init /\ [][NextVision]_vars

\* the log stream of the capture thread: sightings of both devices, the
\* Secure Location check box and the Close button
NextWire ==
  \/ CaptureStep(1, SightingInputs)
  \/ ToggleSecure
  \/ CloseProgram
  \/ Tick

SpecWire == Init /\ [][NextWire]_vars

\* the fusion log: frames, baseline capture, the four check boxes and the
\* periodic print_detection_results tick
NextBlock ==
  \/ \E new_frame \in CameraFrames : WebcamSample(new_frame)
  \/ CaptureBaseline
  \/ \E m \in {"fd", "bs", "contour", "ssim"} : ToggleMethod(m)
  \/ PrintDetectionResults(FALSE)

SpecBlock == Init /\ [][NextBlock]_vars

\* registrations on a trust file that was written by hand
NextStore ==
  \/ CaptureStep(1, OneSighting)
  \/ SweepStep
  \/ PopupStep({TRUE})
  \/ CloseProgram
  \/ Tick

InitStore == InitWifiOn({1}, {NoFile, FileOpenEnd}) /\ InitVision
SpecStore == InitStore /\ [][NextStore]_vars

\* ------------------------------------------------------------------ claims
\* number of entries of the registry stored under key k
CountKey(d, k) == Cardinality({i \in 1..Len(d) : d[i].key = k})

\* thread p stores its sighting in this step
Commits(p) == cap[p].pc = "commit" /\ cap'[p].pc = "read"

\* thread p takes a line from the capture source in this step
Reads(p) == cap[p].pc = "readline" /\ lines_read' = lines_read + 1

\* the registry key expected for a MAC token of the capture source
ExpectedKey(tok) == CASE tok = TokA -> MacA [] tok = TokB -> MacB

C2_AbsentFromTimeoutOn ==
  \A i \in 1..Len(devices_info) :
    now - devices_info[i].info.last_seen < DEVICE_TIMEOUT

\* C2 amended: eviction happens only in a sweep. A sweep that evaluates a
\* record with current_time - last_seen <= T keeps it and shows it in the
\* table; one that finds current_time - last_seen > T queues it for removal;
\* a record leaves the registry only as the head of a sweep's removal list,
\* so between sweeps it stays Present also at times >= last_seen + T.
C2_EvictedOnlyBySweepPastTimeout ==
  /\ [][(gui_busy /\ gui_busy' /\ sweep'.idx = sweep.idx + 1) =>
          LET e == sweep.at_start[sweep.idx]
          IN  IF sweep.current_time - e.info.last_seen > DEVICE_TIMEOUT
                THEN /\ sweep'.keys_to_remove = Append(sweep.keys_to_remove, e.key)
                     /\ device_table' = device_table
                ELSE /\ sweep'.keys_to_remove = sweep.keys_to_remove
                     /\ Len(device_table') = Len(device_table) + 1
                     /\ device_table'[Len(device_table')].mac = e.key]_vars
  /\ [][\A i \in 1..Len(devices_info) :
          ~HasKey(devices_info', devices_info[i].key) =>
            /\ gui_busy
            /\ sweep.keys_to_remove # <<>>
            /\ Head(sweep.keys_to_remove) = devices_info[i].key
            /\ \E k \in 1..Len(sweep.at_start) :
                 /\ sweep.at_start[k].key = devices_info[i].key
                 /\ sweep.current_time - sweep.at_start[k].info.last_seen
                      > DEVICE_TIMEOUT]_vars

\* a sweep has queued a record for removal that is still in the registry,
\* Present although its age is past the timeout
C2_Witness ==
  /\ gui_busy
  /\ sweep.keys_to_remove # <<>>
  /\ HasKey(devices_info, Head(sweep.keys_to_remove))
  /\ now - Lookup(devices_info, Head(sweep.keys_to_remove)).last_seen >= DEVICE_TIMEOUT

\* C3: while a record for a mac exists its last_seen never decreases: every
\* upsert writes a last_seen at least as large as the value it replaces.
C3_LastSeenNeverDecreases ==
  [][\A i \in 1..Len(devices_info), j \in 1..Len(devices_info') :
       devices_info[i].key = devices_info'[j].key =>
         devices_info'[j].info.last_seen >= devices_info[i].info.last_seen]_vars

\* the same mac was sighted twice before any record could expire, and the
\* record now carries a later timestamp than the start of the run
C3_Witness ==
  /\ now <= DEVICE_TIMEOUT
  /\ Len(wifi_strengths) = 2
  /\ Cardinality(detected_devices) = 1
  /\ \E i \in 1..Len(devices_info) : devices_info[i].info.last_seen > 0

\* C4: update_device_table works on a snapshot taken at one instant: what the
\* pass has shown and queued is what the registry held when the pass began,
\* whatever the capture thread stored meanwhile, and the pass never fails.
C4_ReaderSeesSnapshot ==
  /\ ~gui_error
  /\ gui_busy =>
       LET done == SubSeq(sweep.at_start, 1, sweep.idx - 1)
           kept == SelectSeq(done, LAMBDA e :
                     sweep.current_time - e.info.last_seen <= DEVICE_TIMEOUT)
           gone == SelectSeq(done, LAMBDA e :
                     sweep.current_time - e.info.last_seen > DEVICE_TIMEOUT)
       IN  /\ sweep.idx <= Len(sweep.at_start) + 1
           /\ Len(device_table) = Len(kept)
           /\ \A k \in 1..Len(kept) :
                /\ device_table[k].mac = kept[k].key
                /\ device_table[k].signal = kept[k].info.signal
                /\ device_table[k].age = sweep.current_time - kept[k].info.last_seen
           /\ Len(sweep.keys_to_remove) <= Len(gone)
           /\ \A k \in 1..Len(sweep.keys_to_remove) :
                sweep.keys_to_remove[Len(sweep.keys_to_remove) + 1 - k]
                  = gone[Len(gone) + 1 - k].key
           /\ (sweep.idx <= Len(sweep.at_start) => Len(sweep.keys_to_remove) = Len(gone))

\* the capture thread has overwritten a record that the running pass has
\* copied but not yet evaluated
C4_Witness ==
  /\ gui_busy
  /\ sweep.idx <= Len(sweep.at_start)
  /\ HasKey(devices_info, sweep.at_start[sweep.idx].key)
  /\ Lookup(devices_info, sweep.at_start[sweep.idx].key) # sweep.at_start[sweep.idx].info

\* C5: a line with both an SA:<mac> token and a <negative-integer>dBm signal
\* token yields exactly one Sighting: run_tcpdump goes on to commit it, and the
\* commit stores one record keyed by the lower-cased token whose mac field is
\* that key and whose signal is the parsed integer, leaving other records alone.
C5_ValidLineCommitsOneSighting ==
  [][\A p \in Producers :
       /\ (Reads(p) /\ cap'[p].line.tok # <<>> /\ cap'[p].line.sig # 0) =>
            /\ cap'[p].pc = "not_trusted"
            /\ cap'[p].mac_address = ExpectedKey(cap'[p].line.tok)
            /\ cap'[p].signal_value = cap'[p].line.sig
       /\ Commits(p) =>
            LET k == ExpectedKey(cap[p].line.tok)
            IN  /\ CountKey(devices_info', k) = 1
                /\ Lookup(devices_info', k).mac = k
                /\ Lookup(devices_info', k).signal = cap[p].line.sig
                /\ Len(devices_info') = Len(devices_info) + (IF HasKey(devices_info, k) THEN 0 ELSE 1)
                /\ \A i \in 1..Len(devices_info) :
                     devices_info[i].key # k => devices_info'[i] = devices_info[i]
       /\ (devices_info' # devices_info /\ Len(devices_info') >= Len(devices_info)) =>
            \E q \in Producers : Commits(q)]_vars

\* the line with the upper-case token has been committed under the lower-case key
C5_Witness ==
  /\ HasKey(devices_info, MacA)
  /\ Lookup(devices_info, MacA).mac = MacA
  /\ Lookup(devices_info, MacA).signal = 0 - 69

\* C6: a line missing the MAC token, the signal token or both yields no
\* Sighting and no error: registry, plotting globals and published lines are
\* unchanged and the thread is at the top of its loop for the next line.
C6_MalformedLineIsSkipped ==
  [][\A p \in Producers :
       (Reads(p) /\ (cap'[p].line.tok = <<>> \/ cap'[p].line.sig = 0)) =>
         /\ cap'[p].pc = "read"
         /\ UNCHANGED <<devices_info, detected_devices, device_counts,
                        wifi_strengths, published>>]_vars

\* a line with the MAC token but without the signal token has been read and
\* the thread is back at the top of its loop
C6_Witness ==
  /\ cap[1].pc = "read"
  /\ lines_read >= 1
  /\ cap[1].line.tok = TokA
  /\ cap[1].line.sig = 0

\* add_and_close of pop-up i calls add_trusted_device in this step
AddsTrusted(i) ==
  /\ i \in 1..Len(popups)
  /\ popups' = RemoveAt(popups, i)
  /\ ~gui_busy
  /\ gui_busy'

\* C7: add_trusted_device(mac, name) for a mac already in the Trust Store is
\* a no-op for any name: the in-memory map, with the name stored for the mac,
\* and the durable file, with its number of lines, are unchanged.
C7_AddTrustedIsIdempotent ==
  [][\A i \in 1..MaxPopups :
       (AddsTrusted(i) /\ popups[i] \in DOMAIN trusted_devices) =>
         /\ trusted_devices' = trusted_devices
         /\ trust_file' = trust_file
         /\ Len(ReadLines(trust_file')) = Len(ReadLines(trust_file))]_vars

\* a pop-up is open for a mac that has been registered since the pop-up was
\* opened, and the operator can press "Add as Trusted" in it
C7_Witness ==
  /\ root_alive
  /\ ~gui_busy
  /\ \E i \in 1..Len(popups) :
       /\ popups[i] \in DOMAIN trusted_devices
       /\ trusted_devices[popups[i]] = Bob

\* labels of the methods whose check box is set, as the tick named by writes them
EnabledLabels(by) ==
  IF by = "update_gui"
    THEN (IF var_frame_diff THEN {"Frame Diff"} ELSE {})
         \cup (IF var_background_sub THEN {"Background Sub"} ELSE {})
         \cup (IF var_contour THEN {"Contour"} ELSE {})
         \cup (IF var_ssim THEN {"SSIM"} ELSE {})
    ELSE (IF var_frame_diff THEN {"Frame Differencing"} ELSE {})
         \cup (IF var_background_sub THEN {"Background Subtraction"} ELSE {})
         \cup (IF var_contour THEN {"Contour Detection"} ELSE {})
         \cup (IF var_ssim THEN {"SSIM"} ELSE {})

\* C8: in every evaluation tick the reported mean is the arithmetic mean of
\* the percentages of exactly the enabled algorithms (their sum over their
\* number); with no algorithm enabled, or nothing to evaluate, no mean is
\* reported.
C8_MeanOverEnabled ==
  [][report' # report =>
       LET S  == EnabledLabels(report'.by)
           rs == report'.results
       IN  IF report'.available
             THEN /\ {rs[k].method : k \in 1..Len(rs)} = S
                  /\ Len(rs) = Cardinality(S)
                  /\ IF S = {} THEN report'.mean = <<>>
                     ELSE /\ Len(report'.mean) = 1
                          /\ report'.mean[1].num = SumValues(rs)
                          /\ report'.mean[1].den = Cardinality(S)
             ELSE rs = <<>> /\ report'.mean = <<>>]_vars

\* a block was published with three of the four methods enabled and a
\* non-zero mean
C8_Witness ==
  /\ report.by = "print_detection_results"
  /\ report.available
  /\ Len(report.results) = 3
  /\ Len(report.mean) = 1
  /\ report.mean[1].num > 0

\* the line m is the last one of the lines thread p has published, added in
\* this step
Publishes(p, m) ==
  /\ Len(published'[p]) = Len(published[p]) + 1
  /\ published'[p][Len(published'[p])] = m

C10_OneLinePerSighting ==
  \A p \in Producers :
    cap[p].pc = "commit" =>
      /\ Len(published[p]) = 1
      /\ published[p][1].tag \in {"TRUSTED", "NOT TRUSTED"}
      /\ published[p][1].mac = cap[p].mac_address
      /\ published[p][1].signal = cap[p].signal_value

\* C10 amended: device lines are sent only while Secure Location is enabled.
\* A tag check that runs with the flag off sends nothing; with the flag on
\* the first check sends one [NOT TRUSTED] line iff the mac is not in the
\* Trust Store and the second sends one [TRUSTED] line iff it is; a sighting
\* about to be committed has at most one line per tag, each carrying its mac,
\* vendor and signal.
C10_LinesOnlyWhileSecure ==
  /\ [][\A p \in Producers :
          (cap[p].pc \in {"not_trusted", "trusted"} /\ cap'[p].pc # cap[p].pc) =>
            LET sends == IF cap[p].pc = "not_trusted"
                           THEN cap[p].mac_address \notin DOMAIN trusted_devices
                           ELSE cap[p].mac_address \in DOMAIN trusted_devices
            IN  IF secure_location_enabled /\ sends
                  THEN /\ Len(published'[p]) = Len(published[p]) + 1
                       /\ SubSeq(published'[p], 1, Len(published[p])) = published[p]
                  ELSE published'[p] = published[p]]_vars
  /\ [](\A p \in Producers :
          cap[p].pc = "commit" =>
            /\ Len(published[p]) <= 2
            /\ \A k \in 1..Len(published[p]) :
                 /\ published[p][k].tag \in {"TRUSTED", "NOT TRUSTED"}
                 /\ published[p][k].mac = cap[p].mac_address
                 /\ published[p][k].vendor = VendorOf(Prefix(cap[p].mac_address, 8))
                 /\ published[p][k].signal = cap[p].signal_value
            /\ \A k, l \in 1..Len(published[p]) :
                 published[p][k].tag = published[p][l].tag => k = l)

\* a sighting is about to be committed for which no line was sent, Secure
\* Location being off
C10_Witness ==
  /\ cap[1].pc = "commit"
  /\ published[1] = <<>>
  /\ ~secure_location_enabled
\* C11: while baseline_image is unset no evaluation tick gives out a
\* percentage or a mean: whatever update_gui or print_detection_results
\* reports then carries no value of any algorithm and is marked "not
\* available" (the line of print_detection_results, the bare frame of
\* update_gui).
C11_NoBaselineNoValue ==
  [][baseline_image = NoFrame =>
       /\ ~report'.available
       /\ report'.results = <<>>
       /\ report'.mean = <<>>]_vars

\* update_gui has run with a frame and without a baseline
C11_Witness ==
  /\ baseline_image = NoFrame
  /\ frame # NoFrame
  /\ report.by = "update_gui"
  /\ ~report.available

\* C13: a sample tick on which the camera delivers no image leaves the
\* current frame as it was and the sampler in its loop, and a frame once set
\* is never cleared.
C13_FailedReadKeepsFrame ==
  [][/\ (cam.ret /\ ~cam'.ret) => (frame' = frame /\ cam'.pc = "loop")
     /\ frame # NoFrame => frame' # NoFrame]_vars

\* a read has failed after a successful one, the frame is still there
C13_Witness ==
  /\ frame # NoFrame
  /\ ~cam.ret
  /\ cam.pc = "loop"

\* C18: while the window is open an evaluation tick that is scheduled stays
\* scheduled, also across a tick in which an algorithm raised.
C18_TickStaysScheduled ==
  [][\A t \in EvalTicks : (after_eval[t] /\ root_alive') => after_eval'[t]]_vars

\* C19: an evaluation tick on a current frame identical to the baseline
\* reports 0% for every algorithm it ran, and a mean of 0.
C19_IdenticalFramesZero ==
  [][(report' # report /\ report'.available /\ baseline_image = frame) =>
       /\ \A i \in 1..Len(report'.results) : report'.results[i].value = 0
       /\ \A i \in 1..Len(report'.mean) : report'.mean[i].num = 0]_vars

\* all four algorithms have been run on a black frame against a black baseline
C19_Witness ==
  /\ baseline_image = Black
  /\ frame = Black
  /\ report.available
  /\ Len(report.results) = 4
  /\ \A i \in 1..4 : report.results[i].value = 0

C16_FailedAppendLeavesMapUnchanged ==
  [][\A i \in 1..MaxPopups, typed \in TypedNames :
       AddAndClose(i, typed, FALSE) =>
         /\ popups[i] \notin DOMAIN trusted_devices'
         /\ DOMAIN trusted_devices' = DOMAIN load_trusted_devices(trust_file')]_vars
\* C17: load_trusted_devices never fails: start-up goes on to the running
\* program whatever the state of trusted_devices.txt; an absent file is
\* created empty and the map is empty, an unreadable file gives an empty map.
C17_LoadNeverFails ==
  [][boot' # boot =>
       /\ boot' = "running"
       /\ store = "absent" =>
            (store' = "readable" /\ trust_file' = <<>> /\ trusted_devices' = <<>>)
       /\ store = "unreadable" => trusted_devices' = <<>>]_vars
\* C12: baseline_image changes only in capture_baseline, which copies the
\* current frame into it; every other step (sampling, evaluation ticks,
\* sightings, sweeps) leaves it as it is, and so does capture_baseline while
\* no frame exists.
C12_BaselineOnlyByCapture ==
  [][baseline_image' # baseline_image =>
       /\ CaptureBaseline
       /\ frame # NoFrame
       /\ baseline_image' = frame]_vars

\* a baseline was captured, the camera has moved on, a tick has compared the
\* two, a device has been sighted and a sweep has shown it
C12_Witness ==
  /\ baseline_image = Black
  /\ frame = White
  /\ report.available
  /\ devices_info # <<>>
  /\ device_table # <<>>

\* C14: once the child's output has ended or a read on it fails, the capture
\* thread leaves its loop.
C14_CaptureEndsAfterStreamEnds ==
  (stream # "open") ~> (cap[1].pc = "exited")

\* C15: once stop_threads is set, both producers leave their loops, whether
\* or not the child delivers another line.
C15_ProducersExitAfterStop ==
  stop_threads ~> (cap[1].pc = "exited" /\ cam.pc = "exited")
\* C21: a sweep removes a record only if now - last_seen > timeout holds at
\* the moment of removal for the record then stored, so a Sighting committed
\* between the sweep's snapshot and its deletion step is never lost.
C21_RemovedOnlyWhenStale ==
  [][\A i \in 1..Len(devices_info) :
       ~HasKey(devices_info', devices_info[i].key) =>
         now - devices_info[i].info.last_seen > DEVICE_TIMEOUT]_vars

\* C22: for one Sighting the capture thread never publishes both a
\* [NOT TRUSTED] and a [TRUSTED] line, whatever add_trusted_device does in
\* between (published[p] holds the lines of the Sighting in progress), and a
\* [TRUSTED] line carries the name registered for its mac.
C22_OneTagPerSighting ==
  \A p \in Producers :
    /\ ~\E j, k \in 1..Len(published[p]) :
          published[p][j].tag = "NOT TRUSTED" /\ published[p][k].tag = "TRUSTED"
    /\ \A k \in 1..Len(published[p]) :
          published[p][k].tag = "TRUSTED" =>
            /\ published[p][k].mac \in DOMAIN trusted_devices
            /\ published[p][k].name = trusted_devices[published[p][k].mac]

\* C23: the sweep runs on one cadence: while the window lives and no sweep
\* has died, exactly one run of update_device_table is pending or in
\* progress; registering a trusted device or a sighting adds no further chain.
C23_OneSweepChain ==
  (root_alive /\ ~gui_error) =>
    Len(after_table) + (IF gui_busy THEN 1 ELSE 0) = 1

\* the percentage the method written as label computes from the pair
\* (baseline, current) alone
ValueOn(label, baseline, current) ==
  CASE label \in {"Frame Diff", "Frame Differencing"} ->
         detect_frame_differencing(baseline, current).diff_percent
    [] label \in {"Background Sub", "Background Subtraction"} ->
         detect_background_subtraction(baseline, current).diff_percent
    [] label \in {"Contour", "Contour Detection"} ->
         detect_contour_detection(baseline, current).diff_percent
    [] label = "SSIM" -> detect_ssim(baseline, current).diff_percent

\* C24: in an evaluation pass of either tick every enabled algorithm is
\* applied to the same unmodified current frame, so the percentage it reports
\* for a (baseline, current) pair is the same whichever other algorithms are
\* enabled.
C24_ValueIndependentOfToggles ==
  [][(report' # report /\ report'.available) =>
       \A k \in 1..Len(report'.results) :
         report'.results[k].value =
           ValueOn(report'.results[k].method, baseline_image, frame)]_vars

\* C25: every Sighting line published by run_tcpdump (either tag, every
\* vendor label, every registered name) is parsed by parse_wifi_detection into
\* exactly one entry whose status, mac, vendor, trusted_name and signal are
\* the emitted values.
C25_DeviceLineRoundTrip ==
  \A p \in Producers : \A k \in 1..Len(published[p]) :
    LET m == published[p][k]
        r == parse_wifi_detection(<<WireLine(m)>>)
    IN  /\ ~r.raised
        /\ r.wifi_list =
             <<[status       |-> IF m.tag = "TRUSTED" THEN <<"T", "R", "U", "S", "T", "E", "D">>
                                 ELSE <<"N", "O", "T", " ", "T", "R", "U", "S", "T", "E", "D">>,
                mac          |-> m.mac,
                vendor       |-> m.vendor,
                trusted_name |-> m.name,
                signal       |-> m.signal]>>

\* key of parse_free_space_detection for a label of print_detection_results
KeyOf(label) ==
  CASE label = "Frame Differencing" -> "frame_differencing"
    [] label = "Background Subtraction" -> "background_subtraction"
    [] label = "Contour Detection" -> "contour_detection"
    [] label = "SSIM" -> "ssim"

\* C26: parse_free_space_detection applied to the block a
\* print_detection_results tick publishes returns a value for exactly the
\* enabled methods, each equal to the emitted two-decimal percentage, and a
\* mean iff some method is enabled; disabled methods and the all-disabled
\* mean (and everything, when nothing can be compared) are absent, not zero.
C26_FusionBlockRoundTrip ==
  /\ [][(report' # report /\ report'.by = "print_detection_results") =>
          {report'.results[k].method : k \in 1..Len(report'.results)} =
            IF report'.available
              THEN EnabledLabels("print_detection_results") ELSE {}]_vars
  /\ [](report.by = "print_detection_results" =>
          LET rs == report.results
              emitted(key) ==
                IF key = "mean"
                  THEN RoundHundredths(SumValues(rs), Len(rs))
                  ELSE rs[CHOOSE k \in 1..Len(rs) : KeyOf(rs[k].method) = key].value
          IN  parse_free_space_detection(SplitLines(Join(OutputLines(report)))) =
                [raised |-> FALSE,
                 result |->
                   [key \in {KeyOf(rs[k].method) : k \in 1..Len(rs)}
                              \cup (IF rs # <<>> THEN {"mean"} ELSE {})
                      |-> [num |-> emitted(key), den |-> 100]]])

\* a block was published with two methods enabled, two disabled and a
\* non-zero mean
C26_Witness ==
  /\ report.by = "print_detection_results"
  /\ report.available
  /\ Len(report.results) = 2
  /\ report.mean[1].num > 0

\* C27: after successful add_trusted_device calls on a loaded store the two
\* copies agree: the file has exactly one line per registered mac and
\* load_trusted_devices on the file gives the in-memory map, so no entry was
\* removed or renamed.
C27_StoreCopiesAgree ==
  /\ Len(ReadLines(trust_file)) = Cardinality(DOMAIN trusted_devices)
  /\ load_trusted_devices(trust_file) = trusted_devices

====
